---- MODULE Spec2Model ----
(***************************************************************************)
(* A model of the annotation pipeline of bsmcalls/SNPnexus.py.             *)
(*                                                                         *)
(* Python strings are sequences of one-character strings, so that          *)
(* str.split, str.join and the + of column names are computed and not      *)
(* assumed.  A cell of a DataFrame is NaN, Str(s) or Num(n).  A DataFrame  *)
(* is a record [index, columns, data]: the row labels in row order, the    *)
(* column labels in column order, and one sequence of cells per column.    *)
(* Every function of the module is one specification: Init draws the       *)
(* arguments, the actions are the steps of the function, pc is the         *)
(* position in it and exc the exception that left it.                      *)
(***************************************************************************)
EXTENDS Integers, Sequences, FiniteSets, TLC

VARIABLES pc, exc, args, locals, val

vars == <<pc, exc, args, locals, val>>

----------------------------------------------------------------------------
(* Cells *)

NaN == [t |-> "nan"]

Str(s) == [t |-> "str", s |-> s]

Num(n) == [t |-> "num", n |-> n]

IsStr(x) == x.t = "str"

IsNaN(x) == x.t = "nan"

(* None, as get_annot returns it and pd.concat drops it *)
None == [t |-> "none"]

----------------------------------------------------------------------------
(* Strings and lists *)

Range(f) == {f[i] : i \in DOMAIN f}

In(x, l) == \E i \in DOMAIN l : l[i] = x

NoRepeat(l) == \A i, j \in DOMAIN l : i # j => l[i] # l[j]

(* every enumeration of the finite set S: the orders a Python set may be iterated in *)
Orders(S) == {p \in [1..Cardinality(S) -> S] : NoRepeat(p)}

SeqsUpTo(S, n) == UNION {[1..k -> S] : k \in 0..n}

RECURSIVE Concat(_)
Concat(ll) == IF ll = <<>> THEN <<>> ELSE Head(ll) \o Concat(Tail(ll))

(* the first place sep starts at in s, 0 when there is none *)
Find(s, sep) ==
    LET hits == {i \in 1..(Len(s) - Len(sep) + 1) : SubSeq(s, i, i + Len(sep) - 1) = sep}
    IN IF hits = {} THEN 0 ELSE CHOOSE i \in hits : \A j \in hits : i <= j

RECURSIVE Split(_, _)
Split(s, sep) ==
    LET i == Find(s, sep)
    IN IF i = 0 THEN <<s>>
       ELSE <<SubSeq(s, 1, i - 1)>> \o Split(SubSeq(s, i + Len(sep), Len(s)), sep)

RECURSIVE Join(_, _)
Join(sep, l) ==
    IF l = <<>> THEN <<>>
    ELSE IF Len(l) = 1 THEN l[1]
    ELSE l[1] \o sep \o Join(sep, Tail(l))

----------------------------------------------------------------------------
(* DataFrames *)

Frame(index, columns, data) == [index |-> index, columns |-> columns, data |-> data]

NRows(df) == Len(df.index)

(* the positions of the rows labelled var, in row order *)
Rows(index, var) ==
    LET F[i \in 0..Len(index)] ==
            IF i = 0 THEN <<>>
            ELSE IF index[i] = var THEN Append(F[i - 1], i) ELSE F[i - 1]
    IN F[Len(index)]

(* dtype of a column as pandas infers it: object as soon as a cell is a str *)
Dtype(col) == IF \E i \in DOMAIN col : IsStr(col[i]) THEN "object" ELSE "float64"

(* an exception leaving a function *)
Raise(e) == [raise |-> e]

IsRaise(x) == "raise" \in DOMAIN x

(* pd.concat(l, axis=0) of frames that have the same columns *)
ConcatRows(l) ==
    Frame(Concat([i \in DOMAIN l |-> l[i].index]),
          l[1].columns,
          [c \in Range(l[1].columns) |-> Concat([i \in DOMAIN l |-> l[i].data[c]])])

----------------------------------------------------------------------------
(* annotation_duplicates *)

VariantKey(indivID, tissue, pos) == <<indivID, tissue, "1", pos, "A/G">>

(* annot.loc[[var]]: the rows labelled var, in row order *)
Loc(annot, var) ==
    LET r == Rows(annot.index, var)
    IN Frame([i \in DOMAIN r |-> var], annot.columns,
             [c \in Range(annot.columns) |-> [i \in DOMAIN r |-> annot.data[c][r[i]]]])

(* lines.iloc[[0]] *)
ILocFirst(lines) ==
    Frame(<<lines.index[1]>>, lines.columns,
          [c \in Range(lines.columns) |-> <<lines.data[c][1]>>])

(* do_var that joins the values of the duplicates in reverse row order *)
DoVarReversed(annot, var, sep) ==
    LET lines == Loc(annot, var)
        n == NRows(lines)
        object == {c \in Range(annot.columns) : Dtype(annot.data[c]) = "object"}
    IN IF n = 1 THEN lines
       ELSE IF \E c \in object : \E i \in 1..n : ~IsStr(lines.data[c][i])
       THEN Raise("TypeError")
       ELSE Frame(<<var>>, annot.columns,
                  [c \in Range(annot.columns) |->
                      IF c \in object
                      THEN <<Str(Join(sep, [i \in 1..n |-> lines.data[c][n + 1 - i].s]))>>
                      ELSE <<lines.data[c][1]>>])

(* do_var: lines[col] keeps the dtype of annot[col]; sep.join raises TypeError
   on a list that holds a NaN *)
DoVar(annot, var, sep) ==
    LET lines == Loc(annot, var)
        object == {c \in Range(annot.columns) : Dtype(annot.data[c]) = "object"}
    IN IF NRows(lines) = 1 THEN lines
       ELSE IF \E c \in object : \E i \in DOMAIN lines.data[c] : ~IsStr(lines.data[c][i])
       THEN Raise("TypeError")
       ELSE LET line == ILocFirst(lines)
            IN Frame(line.index, line.columns,
                     [c \in Range(line.columns) |->
                         IF c \in object
                         THEN <<Str(Join(sep, [i \in DOMAIN lines.data[c] |-> lines.data[c][i].s]))>>
                         ELSE line.data[c]])

(* annotation_duplicates that visits every row label, not every distinct one *)
AnnotationDuplicatesPerRow(annot, sep, order) ==
    LET l == [i \in DOMAIN annot.index |-> DoVar(annot, annot.index[i], sep)]
    IN IF \E i \in DOMAIN l : IsRaise(l[i]) THEN Raise("TypeError") ELSE ConcatRows(l)

(* annotation_duplicates; order is the order in which the set A is iterated *)
AnnotationDuplicates(annot, sep, order) ==
    IF NoRepeat(annot.index) THEN annot
    ELSE LET l == [i \in DOMAIN order |-> DoVar(annot, order[i], sep)]
         IN IF \E i \in DOMAIN l : IsRaise(l[i]) THEN Raise("TypeError") ELSE ConcatRows(l)

MaxDupRows == 3

DupKeys == {VariantKey("CMC_MSSM_1", "NeuN_pl", p) : p \in {100, 200}}

(* an object column (gene names, some missing) and a numeric column *)
Gene == <<"g">>

Score == <<"s">>

DupCells == {Str(<<"a">>), Str(<<"b">>), NaN}

DupScores == {Num(1), Num(2)}

InitDup ==
    /\ pc = "annotation_duplicates"
    /\ exc = "none"
    /\ \E n \in 1..MaxDupRows :
          \E ix \in [1..n -> DupKeys], g \in [1..n -> DupCells], s \in [1..n -> DupScores],
             sep \in {<<":">>, <<";">>} :
             args = [annot |-> Frame(ix, <<Gene, Score>>, (Gene :> g) @@ (Score :> s)),
                     sep |-> sep]
    /\ locals = [A |-> {}]
    /\ val = None

(* l. 71-72: no label is duplicated, annot is returned as it is *)
DupUnchanged ==
    /\ pc = "annotation_duplicates"
    /\ NoRepeat(args.annot.index)
    /\ val' = AnnotationDuplicates(args.annot, args.sep, <<>>)
    /\ pc' = "done"
    /\ UNCHANGED <<exc, args, locals>>

(* l. 74-90: one do_var per element of the set A, in the set's order *)
DupCollapse ==
    /\ pc = "annotation_duplicates"
    /\ ~NoRepeat(args.annot.index)
    /\ \E order \in Orders(Range(args.annot.index)) :
          LET r == AnnotationDuplicates(args.annot, args.sep, order)
          IN /\ locals' = [A |-> Range(args.annot.index)]
             /\ IF IsRaise(r)
                THEN pc' = "raised" /\ exc' = r.raise /\ val' = val
                ELSE pc' = "done" /\ exc' = exc /\ val' = r
    /\ UNCHANGED args

NextDup == DupUnchanged \/ DupCollapse

SpecDup == InitDup /\ [][NextDup]_vars

(* the cell of column c in the one row of df labelled k *)
CellOf(df, k, c) == df.data[c][Rows(df.index, k)[1]]

(* C2: when annotation_duplicates returns, its value has exactly one row for
   each distinct Variant Key of annot, no other key, and annot's columns with
   their labels, in annot's order. *)
C2_OneRowPerKey ==
    pc = "done" =>
        /\ \A k \in Range(args.annot.index) : Len(Rows(val.index, k)) = 1
        /\ Range(val.index) = Range(args.annot.index)
        /\ val.columns = args.annot.columns
        /\ DOMAIN val.data = Range(args.annot.columns)

C2_Witness ==
    /\ pc = "done"
    /\ Len(args.annot.index) = 3
    /\ Cardinality(Range(args.annot.index)) = 2
    /\ Len(val.index) = 2

(* C3: when annotation_duplicates returns, the row of a key with N > 1 rows
   holds, in an object column, the key's N values in their row order joined
   by sep, and in any other column the value of the key's first row; the row
   of a key with one row holds that row's values. *)
C3_CollapsePolicy ==
    pc = "done" =>
        \A k \in Range(args.annot.index) : \A c \in Range(args.annot.columns) :
            LET r == Rows(args.annot.index, k)
                col == args.annot.data[c]
            IN IF Len(r) > 1 /\ Dtype(col) = "object"
               THEN CellOf(val, k, c) = Str(Join(args.sep, [i \in DOMAIN r |-> col[r[i]].s]))
               ELSE CellOf(val, k, c) = col[r[1]]

C3_Witness ==
    /\ pc = "done"
    /\ args.sep = <<";">>
    /\ \E k \in Range(args.annot.index) :
          /\ Len(Rows(args.annot.index, k)) = 2
          /\ CellOf(val, k, Gene) = Str(<<"b", ";", "a">>)
          /\ CellOf(val, k, Score) = Num(2)
    /\ \E k \in Range(args.annot.index) : Len(Rows(args.annot.index, k)) = 1

----------------------------------------------------------------------------
(* regularize_categ_cols *)

(* the least element of a non-empty set of integers *)
Min(S) == CHOOSE i \in S : \A j \in S : i <= j

(* helper that lets the lowest priority category of the cell win *)
HelperLastWins(old, categories) ==
    IF IsNaN(old) THEN old
    ELSE IF ~IsStr(old) THEN Raise("ValueError")
    ELSE LET l == Split(old.s, <<":">>)
             hits == {i \in DOMAIN categories : In(categories[i], l)}
         IN IF hits = {} THEN old ELSE Str(categories[CHOOSE i \in hits : \A j \in hits : j <= i])

(* helper, l. 175-183 *)
Helper(old, categories) ==
    IF IsNaN(old) THEN old
    ELSE IF ~IsStr(old) THEN Raise("ValueError")
    ELSE LET l == Split(old.s, <<":">>)
             hits == {i \in DOMAIN categories : In(categories[i], l)}
         IN IF hits = {} THEN old ELSE Str(categories[Min(hits)])

(* a Categorical that keeps the values outside its categories *)
CategoricalKeepsAll(s, categories) ==
    IF ~NoRepeat(categories) THEN Raise("ValueError")
    ELSE [categories |-> categories, values |-> s]

(* pd.Categorical(s, categories=categories, ordered=True): a value that is not
   one of the categories becomes NaN; the categories must be unique *)
Categorical(s, categories) ==
    IF ~NoRepeat(categories) THEN Raise("ValueError")
    ELSE [categories |-> categories,
          values |-> [i \in DOMAIN s |->
                         IF IsStr(s[i]) /\ In(s[i].s, categories) THEN s[i] ELSE NaN]]

(* Categorical.fillna(value): the fill value must be one of the categories *)
FillNa(cat, value) ==
    IF ~In(value, cat.categories) THEN Raise("ValueError")
    ELSE [categories |-> cat.categories,
          values |-> [i \in DOMAIN cat.values |->
                         IF IsNaN(cat.values[i]) THEN Str(value) ELSE cat.values[i]]]

Other == <<"o", "t", "h", "e", "r">>

(* the body of the loop of l. 172-187 for one column s: the Categorical that
   is assigned to val[col], or the exception *)
RegularizeColumn(s, categories0, nafillval) ==
    LET categories == categories0 \o <<Other>>
        h == [i \in DOMAIN s |-> Helper(s[i], categories)]
    IN IF \E i \in DOMAIN h : IsRaise(h[i]) THEN Raise("ValueError")
       ELSE LET cat == Categorical([i \in DOMAIN h |-> h[i]], categories)
            IN IF IsRaise(cat) THEN cat ELSE FillNa(cat, nafillval)

MaxRegRows == 2

MaxCategories == 2

RegLabels == {<<"A">>, <<"B">>, <<"B", ":", "A">>, Other}

RegCells ==
    {NaN, Num(1), Str(<<"A">>), Str(<<"B", ":", "A">>), Str(<<"z">>), Str(<<"z", ":", "B">>),
     Str(Other), Str(<<"A", "B">>)}

RegCol == <<"c">>

RegRest == <<"d">>

(* colsdict, a dict in its order: a sequence of <<column, categories>> *)
RegColsdicts == {<<>>} \cup {<<<<RegCol, cats>>>> : cats \in SeqsUpTo(RegLabels, MaxCategories)}

InitReg ==
    /\ pc = "regularize_categ_cols"
    /\ exc = "none"
    /\ \E n \in 1..MaxRegRows :
          \E c \in [1..n -> RegCells], colsdict \in RegColsdicts,
             nafillval \in {Other, <<"u", "n", "k">>, <<"A">>} :
             args = [colsdict |-> colsdict,
                     annot |-> Frame([i \in 1..n |-> VariantKey("CMC_MSSM_1", "NeuN_pl", i)],
                                     <<RegCol, RegRest>>,
                                     (RegCol :> c) @@ (RegRest :> [i \in 1..n |-> Num(7)])),
                     nafillval |-> nafillval]
    /\ locals = [d |-> <<>>, i |-> 0, categories |-> <<>>]
    /\ val = None

(* l. 169-171: val = annot.copy(); d = copy.deepcopy(colsdict) *)
RegCopy ==
    /\ pc = "regularize_categ_cols"
    /\ val' = [index |-> args.annot.index, columns |-> args.annot.columns,
               data |-> args.annot.data, categories |-> <<>>]
    /\ locals' = [d |-> args.colsdict, i |-> 1, categories |-> <<>>]
    /\ pc' = "for"
    /\ UNCHANGED <<exc, args>>

(* l. 172-187: one turn of the loop over d.items() *)
RegDoColumn ==
    /\ pc = "for"
    /\ locals.i <= Len(locals.d)
    /\ LET col == locals.d[locals.i][1]
           r == RegularizeColumn(val.data[col], locals.d[locals.i][2], args.nafillval)
       IN IF IsRaise(r)
          THEN /\ pc' = "raised"
               /\ exc' = r.raise
               /\ UNCHANGED <<val, locals>>
          ELSE /\ val' = [val EXCEPT !.data[col] = r.values,
                                     !.categories = (col :> r.categories) @@ @]
               /\ locals' = [locals EXCEPT !.i = @ + 1, !.categories = r.categories]
               /\ UNCHANGED <<pc, exc>>
    /\ UNCHANGED args

(* l. 188 *)
RegReturn ==
    /\ pc = "for"
    /\ locals.i > Len(locals.d)
    /\ pc' = "done"
    /\ UNCHANGED <<exc, args, locals, val>>

NextReg == RegCopy \/ RegDoColumn \/ RegReturn

SpecReg == InitReg /\ [][NextReg]_vars

(* the tokens of a text cell *)
Tokens(cell) == Split(cell.s, <<":">>)

(* the columns colsdict names, each with the caller's category list *)
RegItems == {args.colsdict[i] : i \in DOMAIN args.colsdict}

(* C5: when regularize_categ_cols returns, a text cell of a column of colsdict
   among whose ":"-separated tokens a category of the caller's list occurs
   holds the first category of that list, in its order, that occurs among
   the tokens. *)
C5_FirstListedCategoryWins ==
    pc = "done" =>
        \A it \in RegItems : \A r \in DOMAIN args.annot.index :
            LET old == args.annot.data[it[1]][r]
                cats == it[2]
            IN (IsStr(old) /\ \E j \in DOMAIN cats : In(cats[j], Tokens(old))) =>
                  \E j \in DOMAIN cats :
                      /\ In(cats[j], Tokens(old))
                      /\ \A k \in 1..(j - 1) : ~In(cats[k], Tokens(old))
                      /\ val.data[it[1]][r] = Str(cats[j])

C5_Witness ==
    /\ pc = "done"
    /\ args.colsdict = <<<<RegCol, <<<<"A">>, <<"B">>>>>>>>
    /\ args.annot.data[RegCol][1] = Str(<<"B", ":", "A">>)
    /\ val.data[RegCol][1] = Str(<<"A">>)

C7_FallbackLabelAppended ==
    \A it \in RegItems :
        (/\ pc \in {"done", "raised"}
         /\ NoRepeat(it[2] \o <<args.nafillval>>)
         /\ \A r \in DOMAIN args.annot.index :
               IsStr(args.annot.data[it[1]][r]) \/ IsNaN(args.annot.data[it[1]][r]))
        => /\ pc = "done"
           /\ val.categories[it[1]] = it[2] \o <<args.nafillval>>
           /\ \A r \in DOMAIN args.annot.index :
                 IsNaN(args.annot.data[it[1]][r]) => val.data[it[1]][r] = Str(args.nafillval)

----------------------------------------------------------------------------
(* binarize_cols *)

(* extended_columns, l. 121-127 *)
ExtendedColumns(columns, cols2insert, suffix) ==
    Concat([i \in DOMAIN columns |->
               IF In(columns[i], cols2insert)
               THEN <<columns[i], columns[i] \o suffix>>
               ELSE <<columns[i]>>])

(* df.reindex(columns=columns): a column df does not have is all NaN *)
ReindexColumns(df, columns) ==
    Frame(df.index, columns,
          [c \in Range(columns) |->
              IF In(c, df.columns) THEN df.data[c] ELSE [i \in DOMAIN df.index |-> NaN]])

(* df.reindex(index=index), df's labels being unique: the row of each label
   of index in index's order, all NaN for a label df does not have *)
ReindexRows(df, index) ==
    Frame(index, df.columns,
          [c \in Range(df.columns) |->
              [i \in DOMAIN index |->
                  IF In(index[i], df.index) THEN CellOf(df, index[i], c) ELSE NaN]])

(* do_col that marks the present values *)
DoColNotNa(df, col, suffix) ==
    [df EXCEPT !.data[col \o suffix] =
        [i \in DOMAIN df.index |-> IF IsNaN(df.data[col][i]) THEN Num(0) ELSE Num(1)]]

(* do_col, l. 145-147: val[col + suffix] = np.int8(val[col].isna()); with
   do_categ the same values are held as a Categorical *)
DoCol(df, col, suffix) ==
    [df EXCEPT !.data[col \o suffix] =
        [i \in DOMAIN df.index |-> IF IsNaN(df.data[col][i]) THEN Num(1) ELSE Num(0)]]

MaxAnnotRows == 2

MaxCallRows == 2

BinKeys == {VariantKey("CMC_MSSM_1", "NeuN_pl", p) : p \in {100, 200, 300}}

BinColumns == <<<<"x">>, <<"y">>>>

(* the sequences of distinct elements of S of length n at most *)
DistinctSeqs(S, n) == {q \in SeqsUpTo(S, n) : NoRepeat(q)}

BinCells == {Num(5), NaN}

(* annot is a Unified Annotation Table: unique Variant Keys, numeric columns
   with gaps *)
InitBin ==
    /\ pc = "binarize_cols"
    /\ exc = "none"
    /\ \E ix \in DistinctSeqs(BinKeys, MaxAnnotRows), calls \in DistinctSeqs(BinKeys, MaxCallRows),
          cols2binarize \in DistinctSeqs(Range(BinColumns), Len(BinColumns)),
          do_categ \in BOOLEAN :
          \E d \in [Range(BinColumns) -> [DOMAIN ix -> BinCells]] :
             args = [cols2binarize |-> cols2binarize,
                     annot |-> Frame(ix, BinColumns, d),
                     calls |-> [index |-> calls],
                     suffix |-> <<"_", "b", "i", "n">>,
                     do_categ |-> do_categ]
    /\ locals = [columns |-> <<>>, i |-> 0]
    /\ val = None

(* l. 141-144 *)
BinReindex ==
    /\ pc = "binarize_cols"
    /\ LET columns == ExtendedColumns(args.annot.columns, args.cols2binarize, args.suffix)
       IN /\ val' = ReindexRows(ReindexColumns(args.annot, columns), args.calls.index)
          /\ locals' = [columns |-> columns, i |-> 1]
    /\ pc' = "for"
    /\ UNCHANGED <<exc, args>>

(* l. 148-149: one do_col *)
BinDoCol ==
    /\ pc = "for"
    /\ locals.i <= Len(args.cols2binarize)
    /\ val' = DoCol(val, args.cols2binarize[locals.i], args.suffix)
    /\ locals' = [locals EXCEPT !.i = @ + 1]
    /\ UNCHANGED <<pc, exc, args>>

(* l. 150 *)
BinReturn ==
    /\ pc = "for"
    /\ locals.i > Len(args.cols2binarize)
    /\ pc' = "done"
    /\ UNCHANGED <<exc, args, locals, val>>

NextBin == BinReindex \/ BinDoCol \/ BinReturn

SpecBin == InitBin /\ [][NextBin]_vars

(* C4: in the table binarize_cols returns, whose rows are those of the
   Reference Call Set in its order, the indicator column of every selected
   column is 1 on a row exactly when the selected column has no value there
   after reindexing, that is when the row's key is not in annot or annot's
   cell is missing, and 0 otherwise; on a row whose key is not in annot every
   indicator column is 1. *)
C4_IndicatorMarksMissing ==
    pc = "done" =>
        /\ val.index = args.calls.index
        /\ \A c \in Range(args.cols2binarize) : \A i \in DOMAIN args.calls.index :
              LET k == args.calls.index[i]
                  missing == ~In(k, args.annot.index) \/ IsNaN(CellOf(args.annot, k, c))
              IN /\ IsNaN(val.data[c][i]) <=> missing
                 /\ val.data[c \o args.suffix][i] = IF missing THEN Num(1) ELSE Num(0)
                 /\ ~In(k, args.annot.index) => val.data[c \o args.suffix][i] = Num(1)

C4_Witness ==
    /\ pc = "done"
    /\ Len(args.cols2binarize) = 2
    /\ Len(args.calls.index) = 2
    /\ ~In(args.calls.index[1], args.annot.index)
    /\ In(args.calls.index[2], args.annot.index)
    /\ val.data[<<"x", "_", "b", "i", "n">>] = <<Num(1), Num(0)>>
    /\ val.data[<<"y", "_", "b", "i", "n">>] = <<Num(1), Num(1)>>

----------------------------------------------------------------------------
(* vectorize_setvalued *)

Bool(b) == [t |-> "bool", b |-> b]

(* df[col] = values: an existing column is overwritten where it stands, a new
   one is appended after the last column *)
SetItem(df, col, values) ==
    IF In(col, df.columns) THEN [df EXCEPT !.data[col] = values]
    ELSE Frame(df.index, Append(df.columns, col), (col :> values) @@ df.data)

(* l. 213: ll = [y.split(sepstr) for y in annot[colname]] *)
SplitColumn(annot, colname, sepstr) ==
    [i \in DOMAIN annot.index |-> Split(annot.data[colname][i].s, sepstr)]

(* a cell that is no str, a NaN, has no split: l. 213 raises AttributeError *)
HasNoSplit(annot, colname) == \E i \in DOMAIN annot.index : ~IsStr(annot.data[colname][i])

(* l. 214-215: the set of the tokens of ll without nonestr *)
TokenSet(ll, nonestr) == UNION {Range(ll[i]) : i \in DOMAIN ll} \ {nonestr}

(* l. 216-218 *)
Prefix(annot, colname, s) ==
    IF \E y \in s : In(y, annot.columns) THEN colname \o <<"_">> ELSE <<>>

(* l. 223-224: the assignments of the new columns, one after the other *)
RECURSIVE AssignColumns(_, _, _)
AssignColumns(annot, new_colnames, ll) ==
    IF new_colnames = <<>> THEN annot
    ELSE AssignColumns(SetItem(annot, Head(new_colnames),
                               [i \in DOMAIN ll |-> Bool(In(Head(new_colnames), ll[i]))]),
                       Tail(new_colnames), ll)

(* vectorize_setvalued, l. 213-225; order is list(s), the order of the set s.
   colnames of l. 222 is computed and never used. *)
VectorizeSetvalued(annot, colname, nonestr, sepstr, order) ==
    IF HasNoSplit(annot, colname) THEN Raise("AttributeError")
    ELSE LET ll == SplitColumn(annot, colname, sepstr)
             s == TokenSet(ll, nonestr)
             prefix == Prefix(annot, colname, s)
             new_colnames == [i \in DOMAIN order |-> prefix \o order[i]]
         IN AssignColumns(annot, new_colnames, ll)

(* the orders list(s) may have in the call of vectorize_setvalued *)
TokenOrders(annot, colname, nonestr, sepstr) ==
    IF HasNoSplit(annot, colname) THEN {<<>>}
    ELSE Orders(TokenSet(SplitColumn(annot, colname, sepstr), nonestr))

MaxVecRows == 2

SetCol == <<"c">>

NoneStr == <<"N", "o", "n", "e">>

VecColumnLists == {q \in DistinctSeqs({SetCol, <<"a">>, <<"e">>}, 3) : In(SetCol, q)}

VecCells == {Str(<<"a", ":", "b">>), Str(<<"b">>), Str(<<"a">>), Str(NoneStr), NaN}

InitVec ==
    /\ pc = "vectorize_setvalued"
    /\ exc = "none"
    /\ \E n \in 1..MaxVecRows :
          \E d \in [1..n -> VecCells], cols \in VecColumnLists, nonestr \in {NoneStr, <<"b">>} :
             args = [annot |-> Frame([i \in 1..n |-> VariantKey("CMC_MSSM_1", "NeuN_pl", i)], cols,
                                     [c \in Range(cols) |->
                                         IF c = SetCol THEN d ELSE [i \in 1..n |-> Str(<<"x">>)]]),
                     colname |-> SetCol,
                     nonestr |-> nonestr,
                     sepstr |-> <<":">>]
    /\ locals = [old_colnames |-> <<>>, ll |-> <<>>]
    /\ val = None

(* the call; args keeps the table as it was passed, val is that table after
   the call, which modifies it in place and returns it *)
VecCall ==
    /\ pc = "vectorize_setvalued"
    /\ \E order \in TokenOrders(args.annot, args.colname, args.nonestr, args.sepstr) :
          LET r == VectorizeSetvalued(args.annot, args.colname, args.nonestr, args.sepstr, order)
          IN IF IsRaise(r)
             THEN pc' = "raised" /\ exc' = r.raise /\ UNCHANGED <<val, locals>>
             ELSE /\ pc' = "done"
                  /\ val' = r
                  /\ locals' = [old_colnames |-> args.annot.columns,
                                ll |-> SplitColumn(args.annot, args.colname, args.sepstr)]
                  /\ exc' = exc
    /\ UNCHANGED args

NextVec == VecCall

SpecVec == InitVec /\ [][NextVec]_vars

(* the tokens observed in the column, other than the none-token *)
Observed == TokenSet(locals.ll, args.nonestr)

(* the name the specification gives the column of token y *)
IndicatorName(y) ==
    IF \E z \in Observed : In(z, args.annot.columns)
    THEN args.colname \o <<"_">> \o y ELSE y

(* C8: after vectorize_setvalued, every token observed in the column other
   than the none-token has a boolean column, named by the bare token or, on a
   collision with an existing column, by "<column>_<token>", that is True on
   a row exactly when the token is among the row's tokens. *)
C8_IndicatorPerToken ==
    pc = "done" =>
        \A y \in Observed :
            /\ In(IndicatorName(y), val.columns)
            /\ \A i \in DOMAIN val.index :
                  val.data[IndicatorName(y)][i] = Bool(In(y, locals.ll[i]))

(* C9: after vectorize_setvalued, the new columns stand immediately before
   the original column, the old columns keep their order around them, and the
   original column holds its old values. *)
C9_InsertedBeforeOriginal ==
    pc = "done" =>
        LET old == locals.old_colnames
            ix == CHOOSE i \in DOMAIN old : old[i] = args.colname
            new == {IndicatorName(y) : y \in Observed}
        IN /\ \E order \in Orders(new) :
                 val.columns = SubSeq(old, 1, ix - 1) \o order \o SubSeq(old, ix, Len(old))
           /\ val.data[args.colname] = args.annot.data[args.colname]

----------------------------------------------------------------------------
(* vectorize_multiple_setvalued *)

(* a Python str and a Python list, which zip iterates alike *)
PyStr(s) == [py |-> "str", v |-> s]

PyList(l) == [py |-> "list", v |-> l]

(* the items iterating x yields: the one-character strings of a str, the
   elements of a list *)
Iter(x) == IF x.py = "str" THEN [i \in DOMAIN x.v |-> <<x.v[i]>>] ELSE x.v

(* l. 240: zip(colnamel, nonestrl) stops with the shorter of the two *)
Zip(colnamel, nonestrl) ==
    LET n == IF Len(colnamel) <= Len(Iter(nonestrl)) THEN Len(colnamel) ELSE Len(Iter(nonestrl))
    IN [i \in 1..n |-> <<colnamel[i], Iter(nonestrl)[i]>>]

MaxMultiRows == 2

SetCol2 == <<"d">>

MultiCells == {Str(<<"a", ":", "b">>), Str(<<"b">>), Str(NoneStr)}

MultiCells2 == {Str(<<"a">>), Str(<<"N">>), Str(NoneStr)}

InitMulti ==
    /\ pc = "vectorize_multiple_setvalued"
    /\ exc = "none"
    /\ \E n \in 1..MaxMultiRows :
          \E c \in [1..n -> MultiCells], d \in [1..n -> MultiCells2],
             colnamel \in DistinctSeqs({SetCol, SetCol2}, 2),
             nonestrl \in {PyStr(NoneStr)} \cup {PyList(l) : l \in SeqsUpTo({NoneStr, <<"b">>}, 2)} :
             args = [annot |-> Frame([i \in 1..n |-> VariantKey("CMC_MSSM_1", "NeuN_pl", i)],
                                     <<SetCol, SetCol2>>, (SetCol :> c) @@ (SetCol2 :> d)),
                     colnamel |-> colnamel,
                     nonestrl |-> nonestrl,
                     sepstr |-> <<":">>]
    /\ locals = [data |-> None, pairs |-> <<>>, i |-> 0]
    /\ val = None

(* l. 239: data = annot.copy() *)
MultiCopy ==
    /\ pc = "vectorize_multiple_setvalued"
    /\ locals' = [data |-> args.annot, pairs |-> Zip(args.colnamel, args.nonestrl), i |-> 1]
    /\ pc' = "for"
    /\ UNCHANGED <<exc, args, val>>

(* l. 240-241: one vectorize_setvalued, on data, whose cells are all str *)
MultiVectorize ==
    /\ pc = "for"
    /\ locals.i <= Len(locals.pairs)
    /\ LET colname == locals.pairs[locals.i][1]
           nonestr == locals.pairs[locals.i][2]
       IN \E order \in TokenOrders(locals.data, colname, nonestr, args.sepstr) :
             locals' = [locals EXCEPT
                           !.data = VectorizeSetvalued(@, colname, nonestr, args.sepstr, order),
                           !.i = @ + 1]
    /\ UNCHANGED <<pc, exc, args, val>>

(* l. 242 *)
MultiReturn ==
    /\ pc = "for"
    /\ locals.i > Len(locals.pairs)
    /\ val' = locals.data
    /\ pc' = "done"
    /\ UNCHANGED <<exc, args, locals>>

NextMulti == MultiCopy \/ MultiVectorize \/ MultiReturn

SpecMulti == InitMulti /\ [][NextMulti]_vars

(* the single-column vectorizer applied in list order to every column of
   colnamel, each with its none-token *)
RECURSIVE ApplyInOrder(_, _, _, _)
ApplyInOrder(df, colnamel, nonestrs, sepstr) ==
    IF colnamel = <<>> THEN df
    ELSE ApplyInOrder(
             VectorizeSetvalued(df, Head(colnamel), Head(nonestrs), sepstr,
                 CHOOSE o \in TokenOrders(df, Head(colnamel), Head(nonestrs), sepstr) : TRUE),
             Tail(colnamel), Tail(nonestrs), sepstr)

(* the same rows, the same columns whatever their order, the same cells *)
SameTable(a, b) ==
    /\ a.index = b.index
    /\ Range(a.columns) = Range(b.columns)
    /\ \A c \in Range(a.columns) : a.data[c] = b.data[c]

(* C10: the table vectorize_multiple_setvalued returns is the one got by
   applying vectorize_setvalued in list order to every column of colnamel on
   one copy, with the none-token given for the column or, when nonestrl is
   left at its default, with "None" for every column. *)
C10_EveryListedColumnVectorized ==
    (pc = "done" /\ (args.nonestrl.py = "str" \/ Len(args.nonestrl.v) = Len(args.colnamel))) =>
        SameTable(val,
                  ApplyInOrder(args.annot, args.colnamel,
                               IF args.nonestrl.py = "str"
                               THEN [i \in DOMAIN args.colnamel |-> NoneStr]
                               ELSE args.nonestrl.v,
                               args.sepstr))

----------------------------------------------------------------------------
(* get_multi_annotations *)

(* a sample label "<site>_<number>_<tissue>" as the pair of its two parts *)
Sample2indivID(sample) == <<"CMC_", sample[1]>>

Sample2tissue(sample) == sample[2]

(* read_TXT_per_annotation, l. 29-46, on what the path holds: no file
   (pd.read_csv raises FileNotFoundError, which is no ValueError), a file
   pandas cannot parse into the five key columns (the parser's errors and the
   shape and dtype errors of l. 37-40 are ValueErrors), a table without the
   column 'Variation ID' (l. 36 raises KeyError), or the rows of a well-formed
   file, each a position and the value of the feature "f" *)
ReadTXTPerAnnotation(file, indivID, tissue, annotname) ==
    IF file.holds = "missing" THEN Raise("FileNotFoundError")
    ELSE IF file.holds = "malformed" THEN Raise("ValueError")
    ELSE IF file.holds = "no Variation ID" THEN Raise("KeyError")
    ELSE Frame([i \in DOMAIN file.rows |-> VariantKey(indivID, tissue, file.rows[i][1])],
               <<annotname \o <<"_", "f">>>>,
               (annotname \o <<"_", "f">>) :> [i \in DOMAIN file.rows |-> file.rows[i][2]])

(* get_annot, l. 102-114: only a ValueError becomes None *)
GetAnnot(file, sample, annotyp, order) ==
    LET annot == ReadTXTPerAnnotation(file, Sample2indivID(sample), Sample2tissue(sample), annotyp)
    IN IF IsRaise(annot)
       THEN IF annot.raise = "ValueError" THEN None ELSE annot
       ELSE AnnotationDuplicates(annot, <<":">>, order)

(* the keys of the rows a file contributes for a sample *)
FileKeys(sample, file) ==
    {VariantKey(Sample2indivID(sample), Sample2tissue(sample), file.rows[i][1]) :
        i \in DOMAIN file.rows}

(* the orders in which annotation_duplicates may visit the keys of a file *)
FileOrders(sample, file) == Orders(FileKeys(sample, file))

(* do_annotyp, l. 115-117: pd.concat(l, axis=0) drops the None of l and
   raises ValueError when nothing is left *)
DoAnnotyp(l) ==
    LET kept == SelectSeq(l, LAMBDA a : a # None)
    IN IF kept = <<>> THEN Raise("ValueError") ELSE ConcatRows(kept)

(* the labels of the frames of l, each once; they are put in the order they
   first occur, the row order of an outer join being left open *)
UnionIndex(l) ==
    LET all == Concat([i \in DOMAIN l |-> l[i].index])
        F[i \in 0..Len(all)] ==
            IF i = 0 THEN <<>>
            ELSE IF In(all[i], F[i - 1]) THEN F[i - 1] ELSE Append(F[i - 1], all[i])
    IN F[Len(all)]

(* pd.concat(l, axis=1) of frames with unique labels and distinct columns:
   the outer join on the labels *)
ConcatColumns(l) ==
    LET index == UnionIndex(l)
        owner(c) == CHOOSE i \in DOMAIN l : In(c, l[i].columns)
        columns == Concat([i \in DOMAIN l |-> l[i].columns])
    IN Frame(index, columns,
             [c \in Range(columns) |-> ReindexRows(l[owner(c)], index).data[c]])

Samples == <<<<"MSSM_1", "NeuN_pl">>, <<"PITT_2", "muscle">>>>

Sources == {<<"g", "e", "n", "e">>, <<"g", "e", "r", "p">>}

(* what a path <annotdirpath>/<sample>/<annotyp>.txt may hold *)
Rows2File(rows) == [holds |-> "rows", rows |-> rows]

Files ==
    {[holds |-> "missing", rows |-> <<>>], [holds |-> "malformed", rows |-> <<>>],
     [holds |-> "no Variation ID", rows |-> <<>>],
     Rows2File(<<<<100, Str(<<"P">>)>>>>),
     Rows2File(<<<<100, Str(<<"P">>)>>, <<200, Str(<<"Q">>)>>>>),
     Rows2File(<<<<100, Str(<<"P">>)>>, <<100, Str(<<"Q">>)>>>>),
     Rows2File(<<<<100, NaN>>, <<100, Str(<<"Q">>)>>>>)}

InitJoin ==
    /\ pc = "get_multi_annotations"
    /\ exc = "none"
    /\ \E annotlist \in DistinctSeqs(Sources, 2) \ {<<>>}, n \in 1..Len(Samples),
          files \in [Range(Samples) \X Sources -> Files] :
          args = [annotlist |-> annotlist,
                  vcflist |-> [index |-> SubSeq(Samples, 1, n)],
                  files |-> files]
    /\ locals = [a |-> 0, s |-> 0, l |-> <<>>, frames |-> <<>>]
    /\ val = None

(* l. 96: the manifest is read *)
JoinReadManifest ==
    /\ pc = "get_multi_annotations"
    /\ locals' = [a |-> 1, s |-> 1, l |-> <<>>, frames |-> <<>>]
    /\ pc' = "get_annot"
    /\ UNCHANGED <<exc, args, val>>

(* l. 116: get_annot(s, annotyp) for the next sample of the manifest *)
JoinGetAnnot ==
    /\ pc = "get_annot"
    /\ locals.a <= Len(args.annotlist)
    /\ locals.s <= Len(args.vcflist.index)
    /\ LET sample == args.vcflist.index[locals.s]
           annotyp == args.annotlist[locals.a]
           file == args.files[<<sample, annotyp>>]
       IN \E order \in FileOrders(sample, file) :
             LET annot == GetAnnot(file, sample, annotyp, order)
             IN IF IsRaise(annot)
                THEN pc' = "raised" /\ exc' = annot.raise /\ UNCHANGED locals
                ELSE /\ locals' = [locals EXCEPT !.l = Append(@, annot), !.s = @ + 1]
                     /\ UNCHANGED <<pc, exc>>
    /\ UNCHANGED <<args, val>>

(* l. 116-117: the samples' tables of one annotation type are stacked *)
JoinDoAnnotyp ==
    /\ pc = "get_annot"
    /\ locals.a <= Len(args.annotlist)
    /\ locals.s > Len(args.vcflist.index)
    /\ LET a == DoAnnotyp(locals.l)
       IN IF IsRaise(a)
          THEN pc' = "raised" /\ exc' = a.raise /\ UNCHANGED locals
          ELSE /\ locals' = [a |-> locals.a + 1, s |-> 1, l |-> <<>>,
                             frames |-> Append(locals.frames, a)]
               /\ UNCHANGED <<pc, exc>>
    /\ UNCHANGED <<args, val>>

(* l. 118-119: the annotation types' tables are joined on the Variant Key *)
JoinReturn ==
    /\ pc = "get_annot"
    /\ locals.a > Len(args.annotlist)
    /\ val' = ConcatColumns(locals.frames)
    /\ pc' = "done"
    /\ UNCHANGED <<exc, args, locals>>

NextJoin == JoinReadManifest \/ JoinGetAnnot \/ JoinDoAnnotyp \/ JoinReturn

SpecJoin == InitJoin /\ [][NextJoin]_vars

(* the column of the feature of an annotation source *)
SourceColumn(annotyp) == annotyp \o <<"_", "f">>

(* one file of the manifest is missing and every other one is a well-formed
   file without missing text *)
OneFileMissing(sample, annotyp) ==
    /\ In(sample, args.vcflist.index)
    /\ In(annotyp, args.annotlist)
    /\ Len(args.vcflist.index) = 2
    /\ Len(args.annotlist) = 2
    /\ args.files[<<sample, annotyp>>].holds = "missing"
    /\ \A p \in Range(args.vcflist.index) \X Range(args.annotlist) :
          p # <<sample, annotyp>> =>
              /\ args.files[p].holds = "rows"
              /\ \A i \in DOMAIN args.files[p].rows : IsStr(args.files[p].rows[i][2])

(* C1: when the file of one (sample, source) pair is missing,
   get_multi_annotations does not abort, and the table it returns holds the
   rows the sample has from the other sources, with a value in their columns
   and a missing value in the column of the absent source. *)
C1_MissingFileTolerated ==
    \A sample \in Range(Samples) : \A annotyp \in Sources :
        (pc \in {"done", "raised"} /\ OneFileMissing(sample, annotyp)) =>
            /\ pc = "done"
            /\ \A b \in Range(args.annotlist) \ {annotyp} :
                  \A k \in FileKeys(sample, args.files[<<sample, b>>]) :
                      /\ In(k, val.index)
                      /\ IsStr(CellOf(val, k, SourceColumn(b)))
                      /\ IsNaN(CellOf(val, k, SourceColumn(annotyp)))

====
